---- MODULE Spec2Model ----
(***************************************************************************)
(* Fixed-rate token sales contract (src/src/lib.rs): the market registry,  *)
(* the token-pair index, market creation, the two swaps and the read       *)
(* accessors, together with the ERC-20 tokens the contract calls.          *)
(*                                                                         *)
(* Every entry point is an operator that computes, from the storage and    *)
(* the arguments, the outcome of the call: its result, its return value,   *)
(* the storage and the token balances it leaves, the events it emitted     *)
(* and the external calls it made. The actions apply these operators.      *)
(***************************************************************************)
EXTENDS Integers, Sequences, FiniteSets, TLC

\* ------------------------------------------------------------------ bounds
\* Largest value of the amount/rate word (U256 in the source, 2^256 - 1).
U256Max == 2
\* create_market is explored while market_index is below this value.
MaxMarketIndex == 2
\* Tokens of each kind the user holds when the contract is deployed.
InitBalance == 2

\* ------------------------------------------------------------- value sets
ZERO == 0
Tokens == {1, 2}
Address == {ZERO} \cup Tokens
U256 == 0..U256Max
MarketIds == 0..MaxMarketIndex
None == -1

Sender == "user"
Contract == "contract"
Holders == {Sender, Contract, "other"}

DefaultMarket == [base_token |-> ZERO, quote_token |-> ZERO, exchange_rate |-> 0]

VARIABLES
    initialized,    \* bool initialized
    market_index,   \* uint64 market_index
    markets,        \* mapping(uint64 => Market)
    indexes,        \* mapping(address => mapping(address => uint64))
    balances,       \* balances[token][holder] of the ERC-20 tokens
    last,           \* the last mutating call that returned Ok: its operation
                    \* and the value it returned
    assigned        \* history: identifier and fields of every market create_market stored

registry == <<initialized, market_index, markets, indexes>>
vars == <<initialized, market_index, markets, indexes, balances, last, assigned>>

\* ------------------------------------------------------------- arithmetic
checked_div(a, b) == IF b = 0 THEN None ELSE a \div b

checked_mul(a, b) == IF a * b > U256Max THEN None ELSE a * b

\* ------------------------------------------------------------ ERC-20 token
\* transferFrom(from, to, amount) of `token`, called by the contract: it moves
\* the amount when the owner approved the contract and holds the amount, and
\* reverts otherwise. No contract lives at the zero address.
transfer_from_ok(bal, approved, token, from, amount) ==
    /\ token # ZERO
    /\ approved
    /\ bal[token][from] >= amount

\* transfer(to, amount) of `token`, called by the contract.
transfer_ok(bal, token, amount) ==
    /\ token # ZERO
    /\ bal[token][Contract] >= amount

move(bal, token, from, to, amount) ==
    [bal EXCEPT ![token] = [h \in Holders |->
        IF h = from THEN bal[token][h] - amount
        ELSE IF h = to THEN bal[token][h] + amount
        ELSE bal[token][h]]]

\* `let _ = token.transfer_from(..)`: the result of the call is dropped, the
\* balances are those the token left.
transfer_from(bal, approved, token, from, to, amount) ==
    IF transfer_from_ok(bal, approved, token, from, amount)
    THEN move(bal, token, from, to, amount)
    ELSE bal

\* `let _ = token.transfer(..)`.
transfer(bal, token, to, amount) ==
    IF transfer_ok(bal, token, amount)
    THEN move(bal, token, Contract, to, amount)
    ELSE bal

\* One external call the contract made, and whether the token executed it.
Transfer(token, fn, amount, ok) ==
    [token |-> token, fn |-> fn, amount |-> amount, ok |-> ok]

\* ---------------------------------------------------------------- outcomes
\* The outcome of a call: its result ("Ok" or the error), the value returned,
\* the storage and the balances as the call has left them, the external calls
\* it made and the events it emitted.
Outcome(result, ret, init, index, mkts, idxs, bal, calls, emitted) ==
    [result |-> result, ret |-> ret, initialized |-> init, market_index |-> index,
     markets |-> mkts, indexes |-> idxs, balances |-> bal, calls |-> calls,
     emitted |-> emitted]

\* An error returned before anything was written, called or emitted.
Err(error) ==
    Outcome(error, <<>>, initialized, market_index, markets, indexes, balances,
            <<>>, <<>>)

\* A read accessor's outcome.
Read(ret) ==
    Outcome("Ok", ret, initialized, market_index, markets, indexes, balances,
            <<>>, <<>>)

Event(name, fields) == [event |-> name, fields |-> fields]

\* ------------------------------------------------------------ entry points
\* Mutant of initialize: the initialized flag is not checked, so a second
\* call succeeds and resets the counter.
initialize_mut ==
    Outcome("Ok", <<>>, TRUE, 1, markets, indexes, balances, <<>>,
            <<Event("Initialized", <<>>)>>)

initialize ==
    IF initialized
    THEN Err("AlreadyInitialized")
    ELSE Outcome("Ok", <<>>, TRUE, 1, markets, indexes, balances, <<>>,
                 <<Event("Initialized", <<>>)>>)

\* Mutant of create_market_validate: the quote amount is not compared with
\* base_amount * exchange_rate.
create_market_validate_mut(base_token, quote_token, exchange_rate, base_amount, quote_amount) ==
    LET expected_base_amount == checked_div(quote_amount, exchange_rate)
        expected_quote_amount == checked_mul(base_amount, exchange_rate)
    IN  IF exchange_rate = 0 THEN "ExchangeRateCanNotBeZero"
        ELSE IF base_token = ZERO THEN "BaseTokenCanNotBeZeroAddress"
        ELSE IF quote_token = ZERO THEN "QuoteTokenCanNotBeZeroAddress"
        ELSE IF expected_base_amount = None THEN "DivisionUnderflow"
        ELSE IF base_amount # expected_base_amount THEN "IncorrectBaseAmount"
        ELSE IF expected_quote_amount = None THEN "MultiplicationOverflow"
        ELSE "Ok"

\* Mutant of create_market_validate: the token addresses are checked before
\* the exchange rate.
create_market_validate_order_mut(base_token, quote_token, exchange_rate, base_amount, quote_amount) ==
    LET expected_base_amount == checked_div(quote_amount, exchange_rate)
        expected_quote_amount == checked_mul(base_amount, exchange_rate)
    IN  IF base_token = ZERO THEN "BaseTokenCanNotBeZeroAddress"
        ELSE IF quote_token = ZERO THEN "QuoteTokenCanNotBeZeroAddress"
        ELSE IF exchange_rate = 0 THEN "ExchangeRateCanNotBeZero"
        ELSE IF expected_base_amount = None THEN "DivisionUnderflow"
        ELSE IF base_amount # expected_base_amount THEN "IncorrectBaseAmount"
        ELSE IF expected_quote_amount = None THEN "MultiplicationOverflow"
        ELSE IF quote_amount # expected_quote_amount THEN "IncorrectQuoteAmount"
        ELSE "Ok"

\* Mutant of create_market_validate: the quote token address is not checked.
create_market_validate_quote_mut(base_token, quote_token, exchange_rate, base_amount, quote_amount) ==
    LET expected_base_amount == checked_div(quote_amount, exchange_rate)
        expected_quote_amount == checked_mul(base_amount, exchange_rate)
    IN  IF exchange_rate = 0 THEN "ExchangeRateCanNotBeZero"
        ELSE IF base_token = ZERO THEN "BaseTokenCanNotBeZeroAddress"
        ELSE IF expected_base_amount = None THEN "DivisionUnderflow"
        ELSE IF base_amount # expected_base_amount THEN "IncorrectBaseAmount"
        ELSE IF expected_quote_amount = None THEN "MultiplicationOverflow"
        ELSE IF quote_amount # expected_quote_amount THEN "IncorrectQuoteAmount"
        ELSE "Ok"

\* create_market: the argument checks.
create_market_validate(base_token, quote_token, exchange_rate, base_amount, quote_amount) ==
    LET expected_base_amount == checked_div(quote_amount, exchange_rate)
        expected_quote_amount == checked_mul(base_amount, exchange_rate)
    IN  IF exchange_rate = 0 THEN "ExchangeRateCanNotBeZero"
        ELSE IF base_token = ZERO THEN "BaseTokenCanNotBeZeroAddress"
        ELSE IF quote_token = ZERO THEN "QuoteTokenCanNotBeZeroAddress"
        ELSE IF expected_base_amount = None THEN "DivisionUnderflow"
        ELSE IF base_amount # expected_base_amount THEN "IncorrectBaseAmount"
        ELSE IF expected_quote_amount = None THEN "MultiplicationOverflow"
        ELSE IF quote_amount # expected_quote_amount THEN "IncorrectQuoteAmount"
        ELSE "Ok"

\* Mutant of create_market_store: the index entry is written before the
\* existence check, so a MarketExists return leaves a changed index behind.
create_market_store_mut(base_token, quote_token, exchange_rate) ==
    LET current_market_index == market_index
        written == [indexes EXCEPT ![base_token][quote_token] = current_market_index]
    IN  IF indexes[base_token][quote_token] # 0
        THEN [result |-> "MarketExists", markets |-> markets,
              indexes |-> written, market_index |-> market_index]
        ELSE [result |-> "Ok",
              markets |-> [markets EXCEPT ![current_market_index] =
                              [base_token |-> base_token,
                               quote_token |-> quote_token,
                               exchange_rate |-> exchange_rate]],
              indexes |-> written,
              market_index |-> current_market_index + 1]

\* create_market: the existence check and the storage writes. The record
\* holds the outcome and the storage fields as the code has left them when it
\* returns MarketExists or goes on to the transfers.
create_market_store(base_token, quote_token, exchange_rate) ==
    LET current_market_index == market_index
    IN  IF indexes[base_token][quote_token] # 0
        THEN [result |-> "MarketExists", markets |-> markets,
              indexes |-> indexes, market_index |-> market_index]
        ELSE [result |-> "Ok",
              markets |-> [markets EXCEPT ![current_market_index] =
                              [base_token |-> base_token,
                               quote_token |-> quote_token,
                               exchange_rate |-> exchange_rate]],
              indexes |-> [indexes EXCEPT ![base_token][quote_token] =
                              current_market_index],
              market_index |-> current_market_index + 1]

\* Mutant of create_market_return: the identifier the market was stored
\* under is returned, not the counter.
create_market_return_mut(current_market_index) == current_market_index - 1

\* create_market: the value returned, given the counter written back.
create_market_return(current_market_index) == current_market_index

\* create_market. base_approved and quote_approved are the state of the two
\* tokens the call meets: whether the caller approved the contract as spender
\* (examples/simulation.rs approves before it calls).
create_market(base_token, quote_token, exchange_rate, base_amount, quote_amount, base_approved, quote_approved) ==
    LET invalid == create_market_validate(base_token, quote_token, exchange_rate,
                                          base_amount, quote_amount)
        stored == create_market_store(base_token, quote_token, exchange_rate)
        market == stored.markets[market_index]
        pulled_base == transfer_from(balances, base_approved, market.base_token,
                                     Sender, Contract, base_amount)
        pulled_quote == transfer_from(pulled_base, quote_approved, market.quote_token,
                                      Sender, Contract, quote_amount)
    IN  IF invalid # "Ok" THEN Err(invalid)
        ELSE IF stored.result # "Ok"
        THEN Outcome(stored.result, <<>>, initialized, stored.market_index,
                stored.markets, stored.indexes, balances, <<>>, <<>>)
        ELSE Outcome("Ok", <<create_market_return(stored.market_index)>>,
                initialized, stored.market_index, stored.markets, stored.indexes,
                pulled_quote,
                << Transfer(market.base_token, "transferFrom", base_amount,
                       transfer_from_ok(balances, base_approved, market.base_token,
                                        Sender, base_amount)),
                   Transfer(market.quote_token, "transferFrom", quote_amount,
                       transfer_from_ok(pulled_base, quote_approved, market.quote_token,
                                        Sender, quote_amount)) >>,
                <<Event("MarketCreated", <<base_token, quote_token, exchange_rate>>)>>)

\* The checks both swaps start with.
swap_validate(base_token, quote_token, amount) ==
    IF amount = 0 THEN "AmountCanNotBeZero"
    ELSE IF base_token = ZERO THEN "BaseTokenCanNotBeZeroAddress"
    ELSE IF quote_token = ZERO THEN "QuoteTokenCanNotBeZeroAddress"
    ELSE "Ok"

\* The market a pair resolves to: markets[indexes[base][quote]].
market_of(base_token, quote_token) == markets[indexes[base_token][quote_token]]

\* swap_base_token_for_quote_token. `approved`: whether the caller approved
\* the contract as spender of the token pulled.
swap_base_token_for_quote_token(base_token, quote_token, base_amount, approved) ==
    LET invalid == swap_validate(base_token, quote_token, base_amount)
        market == market_of(base_token, quote_token)
        quote_amount == checked_mul(base_amount, market.exchange_rate)
        pulled == transfer_from(balances, approved, market.base_token,
                                Sender, Contract, base_amount)
        pushed == transfer(pulled, market.quote_token, Sender, quote_amount)
    IN  IF invalid # "Ok" THEN Err(invalid)
        ELSE IF quote_amount = None THEN Err("MultiplicationOverflow")
        ELSE Outcome("Ok", <<>>, initialized, market_index, markets, indexes, pushed,
                << Transfer(market.base_token, "transferFrom", base_amount,
                       transfer_from_ok(balances, approved, market.base_token,
                                        Sender, base_amount)),
                   Transfer(market.quote_token, "transfer", quote_amount,
                       transfer_ok(pulled, market.quote_token, quote_amount)) >>,
                <<Event("SwappedBaseTokenForQuoteToken",
                        <<base_token, quote_token, base_amount, quote_amount>>)>>)

\* swap_quote_token_for_base_token. It emits no event.
swap_quote_token_for_base_token(base_token, quote_token, quote_amount, approved) ==
    LET invalid == swap_validate(base_token, quote_token, quote_amount)
        market == market_of(base_token, quote_token)
        base_amount == checked_div(quote_amount, market.exchange_rate)
        pulled == transfer_from(balances, approved, market.quote_token,
                                Sender, Contract, quote_amount)
        pushed == transfer(pulled, market.base_token, Sender, base_amount)
    IN  IF invalid # "Ok" THEN Err(invalid)
        ELSE IF base_amount = None THEN Err("DivisionUnderflow")
        ELSE Outcome("Ok", <<>>, initialized, market_index, markets, indexes, pushed,
                << Transfer(market.quote_token, "transferFrom", quote_amount,
                       transfer_from_ok(balances, approved, market.quote_token,
                                        Sender, quote_amount)),
                   Transfer(market.base_token, "transfer", base_amount,
                       transfer_ok(pulled, market.base_token, base_amount)) >>,
                <<>>)

\* ---------------------------------------------------------- read accessors
\* The address checks of the accessors that take a token pair.
fetch_validate(base_token, quote_token) ==
    IF base_token = ZERO THEN "BaseTokenCanNotBeZeroAddress"
    ELSE IF quote_token = ZERO THEN "QuoteTokenCanNotBeZeroAddress"
    ELSE "Ok"

market_tuple(market) ==
    <<market.base_token, market.quote_token, market.exchange_rate>>

fetch_initialization_status == Read(<<initialized>>)

\* Mutant of fetch_current_market_index: the accessor advances the counter it
\* reads.
fetch_current_market_index_mut ==
    Outcome("Ok", <<market_index>>, initialized, market_index + 1, markets, indexes,
            balances, <<>>, <<>>)

fetch_current_market_index == Read(<<market_index>>)

fetch_exchange_rate(base_token, quote_token) ==
    IF fetch_validate(base_token, quote_token) # "Ok"
    THEN Err(fetch_validate(base_token, quote_token))
    ELSE Read(<<market_of(base_token, quote_token).exchange_rate>>)

fetch_market_id(base_token, quote_token) ==
    IF fetch_validate(base_token, quote_token) # "Ok"
    THEN Err(fetch_validate(base_token, quote_token))
    ELSE Read(<<indexes[base_token][quote_token]>>)

fetch_market_by_tokens(base_token, quote_token) ==
    IF fetch_validate(base_token, quote_token) # "Ok"
    THEN Err(fetch_validate(base_token, quote_token))
    ELSE Read(market_tuple(market_of(base_token, quote_token)))

fetch_market_by_id(id) ==
    IF id >= market_index \/ id = 0
    THEN Err("OutOfBoundIndex")
    ELSE Read(market_tuple(markets[id]))

\* ----------------------------------------------------------------- actions
\* The record kept of a call: the operation and the value it returned.
Call(op, out) == [op |-> op, ret |-> out.ret]

Init ==
    /\ initialized = FALSE
    /\ market_index = 0
    /\ markets = [i \in MarketIds |-> DefaultMarket]
    /\ indexes = [b \in Address |-> [q \in Address |-> 0]]
    /\ balances = [t \in Tokens |-> [h \in Holders |->
                      IF h = Contract THEN 0 ELSE InitBalance]]
    /\ last = [op |-> "deploy", ret |-> <<>>]
    /\ assigned = <<>>

\* The host commits what the call left.
Commit(out) ==
    /\ initialized' = out.initialized
    /\ market_index' = out.market_index
    /\ markets' = out.markets
    /\ indexes' = out.indexes
    /\ balances' = out.balances

\* A call of a mutating entry point: `last` keeps the last one that returned Ok.
Mutate(op, out) ==
    /\ Commit(out)
    /\ last' = IF out.result = "Ok" THEN Call(op, out) ELSE last

\* A call of a read accessor.
Query(out) ==
    /\ Commit(out)
    /\ UNCHANGED <<last, assigned>>

Initialize ==
    /\ Mutate("initialize", initialize)
    /\ UNCHANGED assigned

CreateMarket ==
    \E base_token \in Address, quote_token \in Address,
       exchange_rate \in U256, base_amount \in U256, quote_amount \in U256 :
        LET rejected == create_market(base_token, quote_token, exchange_rate,
                                      base_amount, quote_amount, FALSE, FALSE)
        IN  IF rejected.result # "Ok"
            THEN /\ Mutate("create_market", rejected)
                 /\ UNCHANGED assigned
            ELSE /\ market_index < MaxMarketIndex
                 /\ \E base_approved \in BOOLEAN, quote_approved \in BOOLEAN :
                        Mutate("create_market",
                               create_market(base_token, quote_token, exchange_rate,
                                   base_amount, quote_amount, base_approved, quote_approved))
                 /\ assigned' = Append(assigned, [id |-> market_index,
                        base_token |-> base_token, quote_token |-> quote_token,
                        exchange_rate |-> exchange_rate])

SwapBaseTokenForQuoteToken ==
    \E base_token \in Address, quote_token \in Address, base_amount \in U256 :
        LET rejected == swap_base_token_for_quote_token(base_token, quote_token,
                                                        base_amount, FALSE)
        IN  /\ IF rejected.result # "Ok"
               THEN Mutate("swap_base_token_for_quote_token", rejected)
               ELSE \E approved \in BOOLEAN :
                        Mutate("swap_base_token_for_quote_token",
                               swap_base_token_for_quote_token(base_token, quote_token,
                                                               base_amount, approved))
            /\ UNCHANGED assigned

SwapQuoteTokenForBaseToken ==
    \E base_token \in Address, quote_token \in Address, quote_amount \in U256 :
        LET rejected == swap_quote_token_for_base_token(base_token, quote_token,
                                                        quote_amount, FALSE)
        IN  /\ IF rejected.result # "Ok"
               THEN Mutate("swap_quote_token_for_base_token", rejected)
               ELSE \E approved \in BOOLEAN :
                        Mutate("swap_quote_token_for_base_token",
                               swap_quote_token_for_base_token(base_token, quote_token,
                                                               quote_amount, approved))
            /\ UNCHANGED assigned

FetchInitializationStatus == Query(fetch_initialization_status)

FetchCurrentMarketIndex == Query(fetch_current_market_index)

FetchExchangeRate ==
    \E base_token \in Address, quote_token \in Address :
        Query(fetch_exchange_rate(base_token, quote_token))

FetchMarketId ==
    \E base_token \in Address, quote_token \in Address :
        Query(fetch_market_id(base_token, quote_token))

FetchMarketByTokens ==
    \E base_token \in Address, quote_token \in Address :
        Query(fetch_market_by_tokens(base_token, quote_token))

FetchMarketById ==
    \E id \in MarketIds : Query(fetch_market_by_id(id))

Next ==
    \/ Initialize
    \/ CreateMarket
    \/ SwapBaseTokenForQuoteToken
    \/ SwapQuoteTokenForBaseToken
    \/ FetchInitializationStatus
    \/ FetchCurrentMarketIndex
    \/ FetchExchangeRate
    \/ FetchMarketId
    \/ FetchMarketByTokens
    \/ FetchMarketById

Spec == Init /\ [][Next]_vars

\* ------------------------------------------------------------------ claims
\* The storage, the balances, the calls and the events of an outcome are
\* those of a call that did nothing.
Untouched(out) ==
    /\ out.initialized = initialized
    /\ out.market_index = market_index
    /\ out.markets = markets
    /\ out.indexes = indexes
    /\ out.balances = balances
    /\ out.emitted = <<>>

\* Some external call of the outcome was refused by the token.
TransferFailed(out) == \E i \in DOMAIN out.calls : ~out.calls[i].ok

\* The pair (b, q) is the pair of a market some create_market call stored.
Created(b, q) ==
    \E i \in DOMAIN assigned :
        assigned[i].base_token = b /\ assigned[i].quote_token = q

\* C1: once initialized, next_market_id is 1 + the number of create_market
\* calls that have succeeded, and it is 0 while initialized is false.
C1_CounterCountsCreations ==
    /\ initialized => market_index = 1 + Len(assigned)
    /\ ~initialized => market_index = 0

\* C2: the fields of a market create_market stored under an identifier are
\* the same in every later state.
C2_StoredMarketsNeverChange ==
    [][\A i \in DOMAIN assigned :
          markets'[assigned[i].id] = markets[assigned[i].id]]_vars

\* C3: for every ordered pair, the index holds m # 0 exactly when markets[m]
\* is the market of that pair, and holds 0 exactly when no market was stored
\* for the pair.
C3_IndexMatchesMarkets ==
    \A b \in Tokens, q \in Tokens :
        /\ \A m \in MarketIds \ {0} :
              indexes[b][q] = m <=>
                  (markets[m].base_token = b /\ markets[m].quote_token = q)
        /\ indexes[b][q] = 0 <=> ~Created(b, q)

\* C4: no create_market stores its market under identifier 0, and the
\* identifiers assigned are strictly increasing (none is used twice).
C4_IdentifiersFreshAndNonZero ==
    \A i \in DOMAIN assigned :
        /\ assigned[i].id # 0
        /\ \A j \in DOMAIN assigned : i < j => assigned[i].id < assigned[j].id

\* C5: a call of create_market or of a swap in which a token transfer fails
\* returns an error and leaves the storage, the balances and the log as they
\* were.
C5_FailedTransferAborts ==
    /\ \A b \in Address, q \in Address, r \in U256, ba \in U256, qa \in U256,
          x \in BOOLEAN, y \in BOOLEAN :
            LET out == create_market(b, q, r, ba, qa, x, y)
            IN  TransferFailed(out) => out.result # "Ok" /\ Untouched(out)
    /\ \A b \in Address, q \in Address, a \in U256, x \in BOOLEAN :
            LET out == swap_base_token_for_quote_token(b, q, a, x)
            IN  TransferFailed(out) => out.result # "Ok" /\ Untouched(out)
    /\ \A b \in Address, q \in Address, a \in U256, x \in BOOLEAN :
            LET out == swap_quote_token_for_base_token(b, q, a, x)
            IN  TransferFailed(out) => out.result # "Ok" /\ Untouched(out)

\* C6: right after a create_market(b, q, r, ..) that returned id,
\* fetch_market_id(b, q) is id, fetch_market_by_tokens(b, q) is (b, q, r) and
\* fetch_current_market_index() is id + 1.
C6_ReturnedIdIsTheMarketId ==
    last.op = "create_market" =>
        LET created == assigned[Len(assigned)]
            id == last.ret[1]
        IN  /\ fetch_market_id(created.base_token, created.quote_token).ret = <<id>>
            /\ fetch_market_by_tokens(created.base_token, created.quote_token).ret =
                  <<created.base_token, created.quote_token, created.exchange_rate>>
            /\ fetch_current_market_index.ret = <<id + 1>>

C8_PairIsNeverCreatedTwice ==
    \A b \in Tokens, q \in Tokens, r \in U256, ba \in U256, qa \in U256,
       x \in BOOLEAN, y \in BOOLEAN :
        Created(b, q) =>
            LET out == create_market(b, q, r, ba, qa, x, y)
            IN  /\ out.result # "Ok"
                /\ create_market_validate(b, q, r, ba, qa) = "Ok" =>
                       out.result = "MarketExists"
                /\ out.market_index = market_index
                /\ out.markets = markets

\* C9: a call of any public operation that returns an error leaves the
\* storage, the token balances and the log as they were.
C9_ErrorLeavesStateUnchanged ==
    /\ initialize.result # "Ok" => Untouched(initialize)
    /\ \A b \in Address, q \in Address, r \in U256, ba \in U256, qa \in U256,
          x \in BOOLEAN, y \in BOOLEAN :
            LET out == create_market(b, q, r, ba, qa, x, y)
            IN  out.result # "Ok" => Untouched(out)
    /\ \A b \in Address, q \in Address, a \in U256, x \in BOOLEAN :
            /\ LET out == swap_base_token_for_quote_token(b, q, a, x)
               IN  out.result # "Ok" => Untouched(out)
            /\ LET out == swap_quote_token_for_base_token(b, q, a, x)
               IN  out.result # "Ok" => Untouched(out)
    /\ \A b \in Address, q \in Address :
            /\ fetch_exchange_rate(b, q).result # "Ok" =>
                   Untouched(fetch_exchange_rate(b, q))
            /\ fetch_market_id(b, q).result # "Ok" =>
                   Untouched(fetch_market_id(b, q))
            /\ fetch_market_by_tokens(b, q).result # "Ok" =>
                   Untouched(fetch_market_by_tokens(b, q))
    /\ \A id \in MarketIds :
            fetch_market_by_id(id).result # "Ok" => Untouched(fetch_market_by_id(id))

\* A market holds tokens and its pair is taken: creating the pair again
\* returns MarketExists, one swap overflows and the other finds no market.
C9_Witness ==
    \E b \in Tokens, q \in Tokens :
        /\ indexes[b][q] # 0
        /\ balances[q][Contract] > 0
        /\ create_market(b, q, 1, 1, 1, TRUE, TRUE).result = "MarketExists"
        /\ swap_base_token_for_quote_token(b, q, U256Max, TRUE).result =
               "MultiplicationOverflow"
        /\ swap_quote_token_for_base_token(q, b, 1, TRUE).result = "DivisionUnderflow"

\* C10: a swap_base_token_for_quote_token(b, q, a) that succeeds against the
\* market of (b, q), of rate r, moves a of b from the caller to the contract
\* and a * r of q from the contract to the caller, and no other balance.
C10_SwapBaseMovesBothAmounts ==
    \A b \in Tokens, q \in Tokens, a \in U256, x \in BOOLEAN :
        LET out == swap_base_token_for_quote_token(b, q, a, x)
            r == market_of(b, q).exchange_rate
        IN  (indexes[b][q] # 0 /\ out.result = "Ok") =>
                out.balances = move(move(balances, b, Sender, Contract, a),
                                    q, Contract, Sender, a * r)

\* C11: a swap_quote_token_for_base_token(b, q, qa) that succeeds against the
\* market of (b, q), of rate r, moves qa of q from the caller to the contract
\* and floor(qa / r) of b from the contract to the caller, and no other
\* balance.
C11_SwapQuoteMovesBothAmounts ==
    \A b \in Tokens, q \in Tokens, qa \in U256, x \in BOOLEAN :
        LET out == swap_quote_token_for_base_token(b, q, qa, x)
            r == market_of(b, q).exchange_rate
        IN  (indexes[b][q] # 0 /\ out.result = "Ok") =>
                out.balances = move(move(balances, q, Sender, Contract, qa),
                                    b, Contract, Sender, qa \div r)

\* C12: for a pair (b, q) no create_market call stored a market for, a
\* swap_quote_token_for_base_token(b, q, qa) with a non-zero amount fails
\* with DivisionUnderflow and moves no tokens.
C12_SwapQuoteOfUnknownPairFails ==
    \A b \in Tokens, q \in Tokens, qa \in U256 \ {0}, x \in BOOLEAN :
        ~Created(b, q) =>
            LET out == swap_quote_token_for_base_token(b, q, qa, x)
            IN  /\ out.result = "DivisionUnderflow"
                /\ out.balances = balances

\* C13: for a pair (b, q) no create_market call stored a market for, a
\* swap_base_token_for_quote_token(b, q, a) with a non-zero amount resolves
\* to the zero-valued market, computes the quote amount 0 and returns Ok with
\* amount_out 0, and the contract's holding of no token decreases.
C13_SwapBaseOfUnknownPairPaysNothing ==
    \A b \in Tokens, q \in Tokens, a \in U256 \ {0}, x \in BOOLEAN :
        ~Created(b, q) =>
            LET out == swap_base_token_for_quote_token(b, q, a, x)
            IN  /\ market_of(b, q) = DefaultMarket
                /\ out.result = "Ok"
                /\ out.emitted = <<Event("SwappedBaseTokenForQuoteToken",
                                         <<b, q, a, 0>>)>>
                /\ \A t \in Tokens :
                       out.balances[t][Contract] >= balances[t][Contract]

\* The errors named *CanNotBeZero*.
CanNotBeZero ==
    {"AmountCanNotBeZero", "BaseTokenCanNotBeZeroAddress",
     "QuoteTokenCanNotBeZeroAddress", "ExchangeRateCanNotBeZero"}

\* C14: a call of create_market or of a swap with a zero amount or a zero
\* token address fails with one of the CanNotBeZero errors and changes
\* nothing.
C14_ZeroArgumentsAreRejected ==
    /\ \A b \in Address, q \in Address, r \in U256, ba \in U256, qa \in U256,
          x \in BOOLEAN, y \in BOOLEAN :
            (ba = 0 \/ qa = 0 \/ b = ZERO \/ q = ZERO) =>
                LET out == create_market(b, q, r, ba, qa, x, y)
                IN  out.result \in CanNotBeZero /\ Untouched(out)
    /\ \A b \in Address, q \in Address, a \in U256, x \in BOOLEAN :
            (a = 0 \/ b = ZERO \/ q = ZERO) =>
                /\ LET out == swap_base_token_for_quote_token(b, q, a, x)
                   IN  out.result \in CanNotBeZero /\ Untouched(out)
                /\ LET out == swap_quote_token_for_base_token(b, q, a, x)
                   IN  out.result \in CanNotBeZero /\ Untouched(out)

\* C15: fetch_market_by_id(0) and fetch_market_by_id(next_market_id) fail
\* with OutOfBoundIndex, and once a market has been created
\* fetch_market_by_id(next_market_id - 1) succeeds and returns a market that
\* create_market stored.
C15_FetchByIdBoundaries ==
    /\ fetch_market_by_id(0).result = "OutOfBoundIndex"
    /\ fetch_market_by_id(market_index).result = "OutOfBoundIndex"
    /\ Len(assigned) > 0 =>
           LET out == fetch_market_by_id(market_index - 1)
           IN  /\ out.result = "Ok"
               /\ \E i \in DOMAIN assigned :
                      out.ret = <<assigned[i].base_token, assigned[i].quote_token,
                                  assigned[i].exchange_rate>>

\* C16: initialize succeeds at most once. While initialized is false a call
\* returns Ok and leaves initialized = true and next_market_id = 1; once it
\* is true every call fails with AlreadyInitialized and changes nothing, and
\* initialized is true in every later state.
C16_InitializeOnce ==
    /\ [](~initialized =>
            /\ initialize.result = "Ok"
            /\ initialize.initialized
            /\ initialize.market_index = 1)
    /\ [](initialized =>
            /\ initialize.result = "AlreadyInitialized"
            /\ Untouched(initialize))
    /\ [][initialized => initialized']_vars
    /\ [][(~initialized /\ initialized') =>
             (market_index' = 1 /\ last'.op = "initialize")]_vars

\* initialize has succeeded, a create_market call followed it, and a further
\* initialize is refused.
C16_Witness ==
    /\ initialized
    /\ Len(assigned) >= 1
    /\ market_index = 2
    /\ last.op = "create_market"
    /\ initialize.result = "AlreadyInitialized"

\* C17: a swap_base_token_for_quote_token(b, q, a) that succeeds against the
\* market of (b, q), followed at once by a successful
\* swap_quote_token_for_base_token(b, q, a * r) of the quote amount it
\* computed, leaves every balance as it was before the two swaps.
C17_SwapRoundTrip ==
    [][\A b \in Tokens, q \in Tokens, a \in U256, x \in BOOLEAN, y \in BOOLEAN :
          LET there == swap_base_token_for_quote_token(b, q, a, x)
              quote_amount == a * market_of(b, q).exchange_rate
          IN  ( /\ indexes[b][q] # 0
                /\ there.result = "Ok"
                /\ balances' = there.balances
                /\ UNCHANGED registry ) =>
                  LET back == swap_quote_token_for_base_token(b, q, quote_amount, y)'
                  IN  back.result = "Ok" => back.balances = balances]_vars

\* C18: every call of initialize, create_market or a swap that succeeds
\* emits exactly one event, carrying the fields of the operation, and every
\* call that fails emits none.
C18_OneEventPerSuccessfulCall ==
    /\ initialize.emitted =
           IF initialize.result = "Ok" THEN <<Event("Initialized", <<>>)>> ELSE <<>>
    /\ \A b \in Address, q \in Address, r \in U256, ba \in U256, qa \in U256,
          x \in BOOLEAN, y \in BOOLEAN :
            LET out == create_market(b, q, r, ba, qa, x, y)
            IN  out.emitted = IF out.result = "Ok"
                              THEN <<Event("MarketCreated", <<b, q, r>>)>>
                              ELSE <<>>
    /\ \A b \in Address, q \in Address, a \in U256, x \in BOOLEAN :
            /\ LET out == swap_base_token_for_quote_token(b, q, a, x)
               IN  out.emitted =
                       IF out.result = "Ok"
                       THEN <<Event("SwappedBaseTokenForQuoteToken",
                                    <<b, q, a, a * market_of(b, q).exchange_rate>>)>>
                       ELSE <<>>
            /\ LET out == swap_quote_token_for_base_token(b, q, a, x)
               IN  Len(out.emitted) = IF out.result = "Ok" THEN 1 ELSE 0

\* C19: create_market succeeds only if quote_amount = base_amount * rate.
\* With a non-zero rate and non-zero token addresses (the checks made before
\* the amounts are compared), it fails with IncorrectBaseAmount if
\* quote_amount / rate, truncated, differs from base_amount, and with
\* IncorrectQuoteAmount if that is equal but base_amount * rate differs from
\* quote_amount.
C19_AmountsMustBeExact ==
    \A b \in Address, q \in Address, r \in U256, ba \in U256, qa \in U256,
       x \in BOOLEAN, y \in BOOLEAN :
        LET out == create_market(b, q, r, ba, qa, x, y)
        IN  /\ out.result = "Ok" => qa = ba * r
            /\ (r # 0 /\ b # ZERO /\ q # ZERO) =>
                  /\ qa \div r # ba => out.result = "IncorrectBaseAmount"
                  /\ (qa \div r = ba /\ ba * r # qa) =>
                         out.result = "IncorrectQuoteAmount"

\* A create_market call of rate 2 with the amounts 1 and 2 has succeeded and
\* pulled them; for a free pair the same call succeeds, a quote amount with a
\* remainder is refused with IncorrectQuoteAmount and a base amount that is
\* not the quotient with IncorrectBaseAmount.
C19_Witness ==
    \E b \in Tokens, q \in Tokens :
        /\ b # q
        /\ Len(assigned) = 1
        /\ assigned[1] = [id |-> 1, base_token |-> b, quote_token |-> q,
                          exchange_rate |-> 2]
        /\ balances[b][Contract] = 1
        /\ balances[q][Contract] = 2
        /\ create_market(q, b, 2, 1, 2, TRUE, TRUE).result = "Ok"
        /\ create_market(q, b, 2, 0, 1, TRUE, TRUE).result = "IncorrectQuoteAmount"
        /\ create_market(q, b, 1, 1, 2, TRUE, TRUE).result = "IncorrectBaseAmount"

\* C20: create_market with a non-zero rate, non-zero token addresses and a
\* base amount whose product with the rate exceeds the integer width fails
\* with MultiplicationOverflow.
C20_OverflowingProductIsReported ==
    \A b \in Tokens, q \in Tokens, r \in U256 \ {0}, ba \in U256, qa \in U256,
       x \in BOOLEAN, y \in BOOLEAN :
        ba * r > U256Max =>
            create_market(b, q, r, ba, qa, x, y).result = "MultiplicationOverflow"

\* C21: create_market checks the rate, then the base token, then the quote
\* token: a zero rate fails with ExchangeRateCanNotBeZero whatever the other
\* arguments, a zero base token with a non-zero rate fails with
\* BaseTokenCanNotBeZeroAddress whatever the quote token, a zero quote token
\* with a non-zero rate and base token fails with
\* QuoteTokenCanNotBeZeroAddress; the amounts and the existence of the market
\* do not matter.
C21_ChecksInOrder ==
    \A b \in Address, q \in Address, r \in U256, ba \in U256, qa \in U256,
       x \in BOOLEAN, y \in BOOLEAN :
        LET out == create_market(b, q, r, ba, qa, x, y)
        IN  /\ r = 0 => out.result = "ExchangeRateCanNotBeZero"
            /\ (r # 0 /\ b = ZERO) => out.result = "BaseTokenCanNotBeZeroAddress"
            /\ (r # 0 /\ b # ZERO /\ q = ZERO) =>
                   out.result = "QuoteTokenCanNotBeZeroAddress"

\* The pair (b, q) has a market, so a valid call for it returns MarketExists;
\* with a zero rate the call returns ExchangeRateCanNotBeZero, also when the
\* amounts are wrong and the addresses are zero, and the address errors come
\* before the amount errors.
C21_Witness ==
    \E b \in Tokens, q \in Tokens :
        /\ indexes[b][q] # 0
        /\ create_market(b, q, 1, 1, 1, TRUE, TRUE).result = "MarketExists"
        /\ create_market(b, q, 0, 1, 1, TRUE, TRUE).result = "ExchangeRateCanNotBeZero"
        /\ create_market(ZERO, ZERO, 0, 1, 2, TRUE, TRUE).result =
               "ExchangeRateCanNotBeZero"
        /\ create_market(ZERO, ZERO, 1, 1, 2, TRUE, TRUE).result =
               "BaseTokenCanNotBeZeroAddress"
        /\ create_market(b, ZERO, 1, 1, 2, TRUE, TRUE).result =
               "QuoteTokenCanNotBeZeroAddress"

\* C22: every market create_market has stored (the record under every
\* identifier it wrote) has a non-zero base token, a non-zero quote token and
\* a non-zero exchange rate.
C22_StoredMarketsAreNonZero ==
    /\ \A i \in DOMAIN assigned :
          /\ markets[assigned[i].id].base_token # ZERO
          /\ markets[assigned[i].id].quote_token # ZERO
          /\ markets[assigned[i].id].exchange_rate # 0
    /\ \A m \in MarketIds :
          markets[m] # DefaultMarket =>
              /\ markets[m].base_token # ZERO
              /\ markets[m].quote_token # ZERO
              /\ markets[m].exchange_rate # 0

\* On the initialized registry create_market has stored a market of rate 2
\* under the identifier 1.
C22_Witness ==
    /\ initialized
    /\ Len(assigned) = 1
    /\ assigned[1].id = 1
    /\ markets[1] = [base_token |-> assigned[1].base_token,
                     quote_token |-> assigned[1].quote_token, exchange_rate |-> 2]

\* C23: every stored market has two different tokens: create_market never
\* succeeds with base = quote.
C23_TokensOfAMarketDiffer ==
    /\ \A i \in DOMAIN assigned : assigned[i].base_token # assigned[i].quote_token
    /\ \A m \in MarketIds :
          markets[m] # DefaultMarket => markets[m].base_token # markets[m].quote_token

\* C24: create_market never succeeds while initialized is false: before
\* initialize has succeeded no market is stored and no index entry written.
C24_NoCreationBeforeInitialize ==
    ~initialized =>
        /\ \A b \in Address, q \in Address, r \in U256, ba \in U256, qa \in U256,
              x \in BOOLEAN, y \in BOOLEAN :
                create_market(b, q, r, ba, qa, x, y).result # "Ok"
        /\ assigned = <<>>
        /\ \A m \in MarketIds : markets[m] = DefaultMarket

\* C25: the swaps on a market pay out no more of a token than was paid into
\* the contract through that market. Stated for the market a create_market
\* call has just stored: the swap of its pair that follows the creation,
\* in either direction, takes from the contract no more of any token than
\* the creation deposited (the swap's own payment counted in).
C25_LiquidityIsolation ==
    [][\A b \in Tokens, q \in Tokens, a \in U256, x \in BOOLEAN :
          ( /\ Len(assigned') > Len(assigned)
            /\ assigned'[Len(assigned')].base_token = b
            /\ assigned'[Len(assigned')].quote_token = q ) =>
              LET there == swap_base_token_for_quote_token(b, q, a, x)'
                  back == swap_quote_token_for_base_token(b, q, a, x)'
                  deposit(t) == balances'[t][Contract] - balances[t][Contract]
              IN  \A t \in Tokens :
                    /\ there.result = "Ok" =>
                         balances'[t][Contract] - there.balances[t][Contract]
                             <= deposit(t)
                    /\ back.result = "Ok" =>
                         balances'[t][Contract] - back.balances[t][Contract]
                             <= deposit(t)]_vars

\* C26: a swap_quote_token_for_base_token with a non-zero quote amount that
\* succeeds against an existing market transfers a non-zero amount of the
\* base token to the caller.
C26_SwapQuotePaysSomething ==
    \A b \in Tokens, q \in Tokens, qa \in U256 \ {0}, x \in BOOLEAN :
        LET out == swap_quote_token_for_base_token(b, q, qa, x)
        IN  (indexes[b][q] # 0 /\ out.result = "Ok") =>
                /\ out.calls[2].fn = "transfer"
                /\ out.calls[2].amount > 0

\* C27: the swaps and the six read accessors, whether they succeed or fail,
\* leave initialized, next_market_id, the markets and the index as they
\* were, and the read accessors also leave the balances and the log.
C27_OnlyInitializeAndCreateWriteTheRegistry ==
    LET Kept(out) == /\ out.initialized = initialized
                     /\ out.market_index = market_index
                     /\ out.markets = markets
                     /\ out.indexes = indexes
    IN  /\ \A b \in Address, q \in Address, a \in U256, x \in BOOLEAN :
              /\ Kept(swap_base_token_for_quote_token(b, q, a, x))
              /\ Kept(swap_quote_token_for_base_token(b, q, a, x))
        /\ Untouched(fetch_initialization_status)
        /\ Untouched(fetch_current_market_index)
        /\ \A b \in Address, q \in Address :
              /\ Untouched(fetch_exchange_rate(b, q))
              /\ Untouched(fetch_market_id(b, q))
              /\ Untouched(fetch_market_by_tokens(b, q))
        /\ \A id \in MarketIds : Untouched(fetch_market_by_id(id))

\* A swap was the last call to change anything: the contract holds tokens of
\* a stored market, a swap of its pair succeeds and moves balances, and the
\* accessors read the market.
C27_Witness ==
    \E b \in Tokens, q \in Tokens :
        /\ last.op = "swap_base_token_for_quote_token"
        /\ indexes[b][q] # 0
        /\ balances[b][Contract] > 0
        /\ swap_quote_token_for_base_token(b, q, 1, TRUE).result = "Ok"
        /\ swap_quote_token_for_base_token(b, q, 1, TRUE).balances # balances
        /\ fetch_market_by_id(indexes[b][q]).result = "Ok"
        /\ fetch_market_by_tokens(b, q).result = "Ok"
====
